---- MODULE Spec2Model ----
(***************************************************************************)
(* Model of the visibility / social-graph / reaction core of typed-lines   *)
(* (src/models.py, src/app.py).                                            *)
(*                                                                         *)
(* The store is one relational database shared by concurrently served      *)
(* requests.  The three association tables (followers, blog_likes,         *)
(* comment_likes) are kept as multisets of rows, so that a duplicated row  *)
(* is a representable state and the composite primary key is something the *)
(* commit has to enforce.  Every JSON toggle handler is split at its SQL   *)
(* statements: load, the handler's membership test, the membership test    *)
(* inside follow/unfollow/like/unlike together with the append/remove,     *)
(* the commit, and the count query that follows the commit.  Each query    *)
(* reads the rows committed at that moment.  The requests in service form  *)
(* a multiset (two equal requests of one user can be in service at once).  *)
(*                                                                         *)
(* Spec serves requests concurrently; SeqSpec serves one request at a      *)
(* time, from its first statement to its response.                         *)
(* HomeSpec renders the home page, FeedSpec the home, profile and explore  *)
(* pages between edits, and DeleteSpec deletes blogs and comments, each    *)
(* from every store its initial predicate draws.  Blogs carry distinct     *)
(* creation times; the order of equal times is not fixed by the source.    *)
(* RaceSpec serves likes, comments and deletions concurrently, statement   *)
(* by statement, from a drawn store.                                       *)
(***************************************************************************)
EXTENDS Integers, FiniteSets, Sequences, Bags, TLC

\* ---------------------------------------------------------------- bounds
NumUsers == 2       \* registered accounts, ids 1..NumUsers
MaxBlogs == 1       \* rows the blogs table may hold
MaxComments == 1    \* rows the comments table may hold
NumSlots == 2       \* requests in service at the same time
MaxReqs == 3        \* requests issued in one behaviour
MaxHomeBlogs == 7   \* blogs in the store when the home page is rendered
MaxListed == 2      \* blogs in the store when pages are browsed
MaxPage == 3        \* highest page number requested from explore
MaxPerPage == 2     \* highest POSTS_PER_PAGE configured
MaxStored == 2      \* blogs, and comments, in the store when rows are deleted
MaxHandled == 1     \* edits and deletions served on a drawn store

Users == 1..NumUsers
Anonymous == 0
BlogIds == 1..MaxBlogs
CommentIds == 1..MaxComments

VARIABLES db, requests, resp, started, prev, feed

vars == <<db, requests, resp, started, prev, feed>>

\* ---------------------------------------------------------------- tables
\* An association table: composite key -> number of rows with that key.
EmptyTable(K) == [k \in K |-> 0]

RECURSIVE SumOver(_, _)
SumOver(f, S) ==
    IF S = {} THEN 0
    ELSE LET x == CHOOSE y \in S : TRUE IN f[x] + SumOver(f, S \ {x})

\* Blog.query.get / Comment.query.get: the row with that primary key, if any.
HasRow(rows, id) == \E r \in rows : r.id = id
GetRow(rows, id) == CHOOSE r \in rows : r.id = id

\* ---------------------------------------------------------------- models.py
\* User.is_following: self.followed.filter(followed_id == user.id).count() > 0
is_following(d, self, user) == d.followers[<<self, user>>] > 0

\* follow without the membership test.
follow_always(d, self, user) == "insert"

\* User.follow: the pending change of the session after the call.
follow(d, self, user) ==
    IF ~is_following(d, self, user) THEN "insert" ELSE "none"

\* unfollow without the membership test.
unfollow_always(d, self, user) == "delete"

\* User.unfollow
unfollow(d, self, user) ==
    IF is_following(d, self, user) THEN "delete" ELSE "none"

\* User.has_liked_blog
has_liked_blog(d, self, blog_id) == d.blog_likes[<<self, blog_id>>] > 0

\* User.like_blog
like_blog(d, self, blog_id) ==
    IF ~has_liked_blog(d, self, blog_id) THEN "insert" ELSE "none"

\* unlike_blog that removes nothing.
unlike_blog_keeps(d, self, blog_id) == "none"

\* User.unlike_blog
unlike_blog(d, self, blog_id) ==
    IF has_liked_blog(d, self, blog_id) THEN "delete" ELSE "none"

\* User.has_liked_comment
has_liked_comment(d, self, comment_id) == d.comment_likes[<<self, comment_id>>] > 0

\* User.like_comment
like_comment(d, self, comment_id) ==
    IF ~has_liked_comment(d, self, comment_id) THEN "insert" ELSE "none"

\* User.unlike_comment
unlike_comment(d, self, comment_id) ==
    IF has_liked_comment(d, self, comment_id) THEN "delete" ELSE "none"

\* Blog.liked_by: the rows of blog_likes joined to this blog, per user.
blog_liked_by(d, blog_id) == [u \in Users |-> d.blog_likes[<<u, blog_id>>]]

\* Comment.liked_by
comment_liked_by(d, comment_id) == [u \in Users |-> d.comment_likes[<<u, comment_id>>]]

\* user.followers read along the wrong column: the users this user follows.
followers_of_swapped(d, user) == [u \in Users |-> d.followers[<<user, u>>]]

\* user.followers: the rows of followers whose followed_id is this user.
followers_of(d, user) == [u \in Users |-> d.followers[<<u, user>>]]

\* Query.count() over such a result: the number of rows.
RowCount(rowsPerUser) == SumOver(rowsPerUser, Users)

\* Blog.likes_count
blog_likes_count(d, blog_id) == RowCount(blog_liked_by(d, blog_id))

\* Comment.likes_count
comment_likes_count(d, comment_id) == RowCount(comment_liked_by(d, comment_id))

is_authenticated(user) == user \in Users

\* can_view with the author branch left out.
can_view_no_author(d, blog, user) ==
    IF blog.is_public THEN TRUE
    ELSE IF user # Anonymous /\ is_authenticated(user)
         THEN IF is_following(d, user, blog.user_id) THEN TRUE ELSE FALSE
         ELSE FALSE

\* can_view with the public branch open to logged-in users only.
can_view_login_only(d, blog, user) ==
    IF user # Anonymous /\ is_authenticated(user)
    THEN IF blog.is_public THEN TRUE
         ELSE IF user = blog.user_id THEN TRUE
         ELSE IF is_following(d, user, blog.user_id) THEN TRUE
         ELSE FALSE
    ELSE FALSE

\* Blog.can_view
can_view(d, blog, user) ==
    IF blog.is_public THEN TRUE
    ELSE IF user # Anonymous /\ is_authenticated(user)
         THEN IF user = blog.user_id THEN TRUE
              ELSE IF is_following(d, user, blog.user_id) THEN TRUE
              ELSE FALSE
         ELSE FALSE

\* ---------------------------------------------------------------- session
\* An INSERT into a table without the primary key.
InsertRow_no_key(tbl, key) == [ok |-> TRUE, tbl |-> [tbl EXCEPT ![key] = @ + 1]]

\* The INSERT of an appended association row: the composite primary key of
\* the table (models.py 9-25) rejects a second row with the same key.
InsertRow(tbl, key) ==
    IF tbl[key] > 0
    THEN [ok |-> FALSE, tbl |-> tbl]
    ELSE [ok |-> TRUE, tbl |-> [tbl EXCEPT ![key] = @ + 1]]

\* A DELETE that matches no row and is not noticed.
DeleteRow_keeps(tbl, key, sane) == [ok |-> TRUE, tbl |-> tbl]

\* The DELETE of a removed association row, by key.  The unit of work
\* expects one row to go; where the driver reports row counts (sane) any
\* other count raises and the transaction is rolled back.
DeleteRow(tbl, key, sane) ==
    IF sane /\ tbl[key] # 1
    THEN [ok |-> FALSE, tbl |-> tbl]
    ELSE [ok |-> TRUE, tbl |-> [tbl EXCEPT ![key] = 0]]

\* db.session.commit(): flush the pending change of the session and commit.
session_commit(tbl, pending, key, sane) ==
    CASE pending = "insert" -> InsertRow(tbl, key)
      [] pending = "delete" -> DeleteRow(tbl, key, sane)
      [] OTHER -> [ok |-> TRUE, tbl |-> tbl]

\* ---------------------------------------------------------------- requests
NoRows == [u \in Users |-> 0]

Idle ==
    [pc |-> "idle", op |-> "none", user |-> Anonymous, id |-> 0, was |-> FALSE,
     pending |-> "none", status |-> "none", code |-> 0, count |-> 0, rows |-> NoRows]

\* A request of current_user = user for the path argument id.
Request(op, user, id) == [Idle EXCEPT !.pc = "load", !.op = op, !.user = user, !.id = id]

Respond(r, code, status) == [r EXCEPT !.pc = "done", !.code = code, !.status = status]

\* The head of toggle_follow with the self-follow test left out.
toggle_follow_load_no_self(r) ==
    IF r.id \notin Users THEN Respond(r, 404, "error")
    ELSE [r EXCEPT !.pc = "check"]

\* The head of toggle_follow: the user lookup and the self-follow test.  id is
\* the user the username resolves to, Anonymous (0) when no account has it.
toggle_follow_load(r) ==
    IF r.id \notin Users THEN Respond(r, 404, "error")
    ELSE IF r.id = r.user THEN Respond(r, 400, "error")
    ELSE [r EXCEPT !.pc = "check"]

\* toggle_follow, one SQL statement at a time.
toggle_follow(d, r, sane) ==
    CASE r.pc = "load" -> [d |-> d, r |-> toggle_follow_load(r)]
      [] r.pc = "check" ->
           [d |-> d, r |-> [r EXCEPT !.pc = "mutate", !.was = is_following(d, r.user, r.id)]]
      [] r.pc = "mutate" ->
           [d |-> d,
            r |-> [r EXCEPT !.pc = "commit",
                            !.pending = IF r.was THEN unfollow(d, r.user, r.id)
                                        ELSE follow(d, r.user, r.id)]]
      [] r.pc = "commit" ->
           LET c == session_commit(d.followers, r.pending, <<r.user, r.id>>, sane) IN
           IF c.ok
           THEN [d |-> [d EXCEPT !.followers = c.tbl], r |-> [r EXCEPT !.pc = "count"]]
           ELSE [d |-> d, r |-> Respond(r, 500, "error")]
      [] r.pc = "count" ->
           LET rows == followers_of(d, r.id) IN
           [d |-> d,
            r |-> [Respond(r, 200, IF r.was THEN "unfollowed" ELSE "followed")
                     EXCEPT !.rows = rows, !.count = RowCount(rows)]]
      [] OTHER -> [d |-> d, r |-> r]

\* toggle_like_blog
toggle_like_blog(d, r, sane) ==
    CASE r.pc = "load" ->
           IF ~HasRow(d.blogs, r.id) THEN [d |-> d, r |-> Respond(r, 404, "error")]
           ELSE [d |-> d, r |-> [r EXCEPT !.pc = "check"]]
      [] r.pc = "check" ->
           [d |-> d, r |-> [r EXCEPT !.pc = "mutate", !.was = has_liked_blog(d, r.user, r.id)]]
      [] r.pc = "mutate" ->
           [d |-> d,
            r |-> [r EXCEPT !.pc = "commit",
                            !.pending = IF r.was THEN unlike_blog(d, r.user, r.id)
                                        ELSE like_blog(d, r.user, r.id)]]
      [] r.pc = "commit" ->
           LET c == session_commit(d.blog_likes, r.pending, <<r.user, r.id>>, sane) IN
           IF c.ok
           THEN [d |-> [d EXCEPT !.blog_likes = c.tbl], r |-> [r EXCEPT !.pc = "count"]]
           ELSE [d |-> d, r |-> Respond(r, 500, "error")]
      [] r.pc = "count" ->
           LET rows == blog_liked_by(d, r.id) IN
           [d |-> d,
            r |-> [Respond(r, 200, IF r.was THEN "unliked" ELSE "liked")
                     EXCEPT !.rows = rows, !.count = RowCount(rows)]]
      [] OTHER -> [d |-> d, r |-> r]

\* toggle_like_comment
toggle_like_comment(d, r, sane) ==
    CASE r.pc = "load" ->
           IF ~HasRow(d.comments, r.id) THEN [d |-> d, r |-> Respond(r, 404, "error")]
           ELSE [d |-> d, r |-> [r EXCEPT !.pc = "check"]]
      [] r.pc = "check" ->
           [d |-> d, r |-> [r EXCEPT !.pc = "mutate", !.was = has_liked_comment(d, r.user, r.id)]]
      [] r.pc = "mutate" ->
           [d |-> d,
            r |-> [r EXCEPT !.pc = "commit",
                            !.pending = IF r.was THEN unlike_comment(d, r.user, r.id)
                                        ELSE like_comment(d, r.user, r.id)]]
      [] r.pc = "commit" ->
           LET c == session_commit(d.comment_likes, r.pending, <<r.user, r.id>>, sane) IN
           IF c.ok
           THEN [d |-> [d EXCEPT !.comment_likes = c.tbl], r |-> [r EXCEPT !.pc = "count"]]
           ELSE [d |-> d, r |-> Respond(r, 500, "error")]
      [] r.pc = "count" ->
           LET rows == comment_liked_by(d, r.id) IN
           [d |-> d,
            r |-> [Respond(r, 200, IF r.was THEN "unliked" ELSE "liked")
                     EXCEPT !.rows = rows, !.count = RowCount(rows)]]
      [] OTHER -> [d |-> d, r |-> r]

\* create_blog with a valid form: the new row gets the next primary key,
\* is_featured takes its column default and date_created the clock, which
\* has advanced since the row before was written.
NextId(rows) == IF rows = {} THEN 1 ELSE 1 + CHOOSE m \in {x.id : x \in rows} : \A x \in rows : x.id <= m

create_blog(d, r, is_public) ==
    LET blog == [id |-> NextId(d.blogs), user_id |-> r.user, is_public |-> is_public,
                 is_featured |-> FALSE, date_created |-> NextId(d.blogs)] IN
    [d |-> [d EXCEPT !.blogs = @ \cup {blog}],
     r |-> [Respond(r, 302, "created") EXCEPT !.id = blog.id]]

\* edit_blog without the test blog.author != current_user.
edit_blog_any_user(d, r, is_public) ==
    IF ~HasRow(d.blogs, r.id) THEN [d |-> d, r |-> Respond(r, 404, "error")]
    ELSE LET blog == GetRow(d.blogs, r.id) IN
         [d |-> [d EXCEPT !.blogs = (@ \ {blog}) \cup {[blog EXCEPT !.is_public = is_public]}],
          r |-> Respond(r, 302, "updated")]

\* edit_blog with a valid form (POST)
edit_blog(d, r, is_public) ==
    IF ~HasRow(d.blogs, r.id) THEN [d |-> d, r |-> Respond(r, 404, "error")]
    ELSE LET blog == GetRow(d.blogs, r.id) IN
         IF blog.user_id # r.user THEN [d |-> d, r |-> Respond(r, 302, "denied")]
         ELSE [d |-> [d EXCEPT !.blogs = (@ \ {blog}) \cup {[blog EXCEPT !.is_public = is_public]}],
               r |-> Respond(r, 302, "updated")]

\* add_comment with a valid form
add_comment(d, r) ==
    IF ~HasRow(d.blogs, r.id) THEN [d |-> d, r |-> Respond(r, 404, "error")]
    ELSE LET comment == [id |-> NextId(d.comments), user_id |-> r.user, blog_id |-> r.id] IN
         [d |-> [d EXCEPT !.comments = @ \cup {comment}], r |-> Respond(r, 200, "success")]

\* view_blog; current_user may be the anonymous user.
view_blog(d, r) ==
    IF ~HasRow(d.blogs, r.id) THEN [d |-> d, r |-> Respond(r, 404, "error")]
    ELSE IF ~can_view(d, GetRow(d.blogs, r.id), r.user)
         THEN [d |-> d, r |-> Respond(r, 302, "denied")]
         ELSE [d |-> d, r |-> Respond(r, 200, "shown")]

\* The rows of an association table that refer to one of ids are deleted
\* with the objects they refer to.
DeleteRowsOf(tbl, ids) == [k \in DOMAIN tbl |-> IF k[2] \in ids THEN 0 ELSE tbl[k]]

\* delete_blog that leaves the rows of blog_likes in place.
delete_blog_keeps_likes(d, r) ==
    IF ~HasRow(d.blogs, r.id) THEN [d |-> d, r |-> Respond(r, 404, "error")]
    ELSE LET blog == GetRow(d.blogs, r.id)
             comments == {c \in d.comments : c.blog_id = blog.id}
         IN  IF blog.user_id # r.user THEN [d |-> d, r |-> Respond(r, 302, "denied")]
             ELSE [d |-> [d EXCEPT !.blogs = @ \ {blog},
                                   !.comments = @ \ comments,
                                   !.comment_likes = DeleteRowsOf(@, {c.id : c \in comments})],
                   r |-> Respond(r, 302, "deleted")]

\* delete_blog: session.delete(blog) takes the comments of the blog with it
\* (cascade on Blog.comments) and, for the blog and each of these comments,
\* the rows of the like tables that refer to them.
delete_blog(d, r) ==
    IF ~HasRow(d.blogs, r.id) THEN [d |-> d, r |-> Respond(r, 404, "error")]
    ELSE LET blog == GetRow(d.blogs, r.id)
             comments == {c \in d.comments : c.blog_id = blog.id}
         IN  IF blog.user_id # r.user THEN [d |-> d, r |-> Respond(r, 302, "denied")]
             ELSE [d |-> [d EXCEPT !.blogs = @ \ {blog},
                                   !.comments = @ \ comments,
                                   !.blog_likes = DeleteRowsOf(@, {blog.id}),
                                   !.comment_likes = DeleteRowsOf(@, {c.id : c \in comments})],
                   r |-> Respond(r, 302, "deleted")]

\* delete_comment that lets any logged-in user delete.
delete_comment_any_user(d, r) ==
    IF ~HasRow(d.comments, r.id) THEN [d |-> d, r |-> Respond(r, 404, "error")]
    ELSE LET comment == GetRow(d.comments, r.id) IN
         [d |-> [d EXCEPT !.comments = @ \ {comment},
                          !.comment_likes = DeleteRowsOf(@, {comment.id})],
          r |-> Respond(r, 200, "success")]

\* delete_comment: comment.blog is read only when the user is not the author
\* of the comment, and is None when the blog row is gone.
delete_comment(d, r) ==
    IF ~HasRow(d.comments, r.id) THEN [d |-> d, r |-> Respond(r, 404, "error")]
    ELSE LET comment == GetRow(d.comments, r.id) IN
         IF r.user # comment.user_id /\ ~HasRow(d.blogs, comment.blog_id)
         THEN [d |-> d, r |-> Respond(r, 500, "error")]
         ELSE IF r.user # comment.user_id /\ r.user # GetRow(d.blogs, comment.blog_id).user_id
         THEN [d |-> d, r |-> Respond(r, 403, "Unauthorized")]
         ELSE [d |-> [d EXCEPT !.comments = @ \ {comment},
                               !.comment_likes = DeleteRowsOf(@, {comment.id})],
               r |-> Respond(r, 200, "success")]

\* ---------------------------------------------------------------- statement by statement
\* Whether the database enforces the FOREIGN KEY clauses is a property of
\* the configured engine (SQLALCHEMY_DATABASE_URI): fk is TRUE where it
\* does, and a row that refers to a missing row is then refused.

\* toggle_like_blog, one statement at a time, next to deletions: the INSERT
\* into blog_likes refers to blogs.id.
toggle_like_blog_step(d, r, sane, fk) ==
    IF r.pc = "commit" /\ r.pending = "insert" /\ fk /\ ~HasRow(d.blogs, r.id)
    THEN [d |-> d, r |-> Respond(r, 500, "error")]
    ELSE toggle_like_blog(d, r, sane)

\* toggle_like_comment, one statement at a time, next to deletions: the
\* INSERT into comment_likes refers to comments.id.
toggle_like_comment_step(d, r, sane, fk) ==
    IF r.pc = "commit" /\ r.pending = "insert" /\ fk /\ ~HasRow(d.comments, r.id)
    THEN [d |-> d, r |-> Respond(r, 500, "error")]
    ELSE toggle_like_comment(d, r, sane)

\* add_comment: get_or_404 of the blog, then the INSERT and the commit.
add_comment_step(d, r, fk) ==
    CASE r.pc = "load" ->
           IF ~HasRow(d.blogs, r.id) THEN [d |-> d, r |-> Respond(r, 404, "error")]
           ELSE [d |-> d, r |-> [r EXCEPT !.pc = "commit"]]
      [] r.pc = "commit" ->
           IF fk /\ ~HasRow(d.blogs, r.id) THEN [d |-> d, r |-> Respond(r, 500, "error")]
           ELSE LET comment == [id |-> NextId(d.comments), user_id |-> r.user, blog_id |-> r.id]
                IN [d |-> [d EXCEPT !.comments = @ \cup {comment}],
                    r |-> Respond(r, 200, "success")]
      [] OTHER -> [d |-> d, r |-> r]

\* delete_blog: get_or_404 and the author test; then session.delete(blog)
\* with the flush, which reads the comments of the blog and the like rows of
\* the blog and of these comments and deletes them with the blog, and the
\* commit.
delete_blog_step(d, r) ==
    CASE r.pc = "load" ->
           LET res == delete_blog(d, r) IN
           IF res.r.status = "deleted" THEN [d |-> d, r |-> [r EXCEPT !.pc = "commit"]]
           ELSE [d |-> d, r |-> res.r]
      [] r.pc = "commit" ->
           LET comments == {c.id : c \in {x \in d.comments : x.blog_id = r.id}} IN
           [d |-> [d EXCEPT !.blogs = {b \in @ : b.id # r.id},
                            !.comments = {c \in @ : c.id \notin comments},
                            !.blog_likes = DeleteRowsOf(@, {r.id}),
                            !.comment_likes = DeleteRowsOf(@, comments)],
            r |-> Respond(r, 302, "deleted")]
      [] OTHER -> [d |-> d, r |-> r]

\* delete_comment: get_or_404 and the test of the user, then the flush,
\* which deletes the comment and its like rows, and the commit.
delete_comment_step(d, r) ==
    CASE r.pc = "load" ->
           LET res == delete_comment(d, r) IN
           IF res.r.code = 200 THEN [d |-> d, r |-> [r EXCEPT !.pc = "commit"]]
           ELSE [d |-> d, r |-> res.r]
      [] r.pc = "commit" ->
           [d |-> [d EXCEPT !.comments = {c \in @ : c.id # r.id},
                            !.comment_likes = DeleteRowsOf(@, {r.id})],
            r |-> Respond(r, 200, "success")]
      [] OTHER -> [d |-> d, r |-> r]

\* ---------------------------------------------------------------- pages
\* The elements of a list.
Range(seq) == {seq[i] : i \in 1..Len(seq)}

\* order_by without desc(): oldest first.
RECURSIVE OrderByDate_asc(_)
OrderByDate_asc(rows) ==
    IF rows = {} THEN <<>>
    ELSE LET b == CHOOSE x \in rows : \A y \in rows : x.date_created <= y.date_created
         IN <<b>> \o OrderByDate_asc(rows \ {b})

\* query.order_by(Blog.date_created.desc()).all()
RECURSIVE OrderByDateDesc(_)
OrderByDateDesc(rows) ==
    IF rows = {} THEN <<>>
    ELSE LET b == CHOOSE x \in rows : \A y \in rows : y.date_created <= x.date_created
         IN <<b>> \o OrderByDateDesc(rows \ {b})

\* query.limit(n) and list[:n]
Limit(seq, n) == SubSeq(seq, 1, IF Len(seq) < n THEN Len(seq) ELSE n)

RecentLimit == 6      \* limit(6) of the recent public blogs
FollowerLimit == 3    \* limit(3) of the private blogs of followed users
HomeLimit == 6        \* all_blogs[:6]

\* index with a featured query that leaves out is_public=True.
index_featured_unfiltered(d, viewer) ==
    LET featured_blogs == OrderByDateDesc({b \in d.blogs : b.is_featured})
        recent_blogs == Limit(OrderByDateDesc({b \in d.blogs : b.is_public}), RecentLimit)
    IN  IF is_authenticated(viewer)
        THEN LET followed_ids == {u \in Users : d.followers[<<viewer, u>>] >= 1} \cup {viewer}
                 follower_blogs ==
                     Limit(OrderByDateDesc({b \in d.blogs :
                               b.user_id \in followed_ids /\ ~b.is_public}), FollowerLimit)
                 all_blogs == Range(recent_blogs) \cup Range(follower_blogs)
             IN [featured |-> featured_blogs,
                 recent |-> Limit(OrderByDateDesc(all_blogs), HomeLimit)]
        ELSE [featured |-> featured_blogs, recent |-> recent_blogs]

\* index: the featured and the recent list of the home page of viewer.
index(d, viewer) ==
    LET featured_blogs == OrderByDateDesc({b \in d.blogs : b.is_featured /\ b.is_public})
        recent_blogs == Limit(OrderByDateDesc({b \in d.blogs : b.is_public}), RecentLimit)
    IN  IF is_authenticated(viewer)
        THEN LET followed_ids == {u \in Users : d.followers[<<viewer, u>>] >= 1} \cup {viewer}
                 follower_blogs ==
                     Limit(OrderByDateDesc({b \in d.blogs :
                               b.user_id \in followed_ids /\ ~b.is_public}), FollowerLimit)
                 all_blogs == Range(recent_blogs) \cup Range(follower_blogs)
             IN [featured |-> featured_blogs,
                 recent |-> Limit(OrderByDateDesc(all_blogs), HomeLimit)]
        ELSE [featured |-> featured_blogs, recent |-> recent_blogs]

\* profile without the follower branch: only the owner sees private blogs.
profile_owner_only(d, viewer, user) ==
    IF is_authenticated(viewer) /\ viewer = user
    THEN OrderByDateDesc({b \in d.blogs : b.user_id = user})
    ELSE OrderByDateDesc({b \in d.blogs : b.user_id = user /\ b.is_public})

\* profile of an existing user: the blogs listed for viewer.
profile(d, viewer, user) ==
    IF is_authenticated(viewer) /\ (viewer = user \/ is_following(d, viewer, user))
    THEN OrderByDateDesc({b \in d.blogs : b.user_id = user})
    ELSE OrderByDateDesc({b \in d.blogs : b.user_id = user /\ b.is_public})

\* paginate with pages counted from 0.
paginate_from_zero(seq, page, per_page) ==
    LET first == page * per_page + 1
        last == IF Len(seq) < (page + 1) * per_page THEN Len(seq) ELSE (page + 1) * per_page
    IN  SubSeq(seq, first, last)

\* paginate(page, per_page, error_out=False): a page below 1 is page 1, the
\* items are the rows from offset (page - 1) * per_page, at most per_page.
paginate(seq, page, per_page) ==
    LET p == IF page < 1 THEN 1 ELSE page
        first == (p - 1) * per_page + 1
        last == IF Len(seq) < p * per_page THEN Len(seq) ELSE p * per_page
    IN  SubSeq(seq, first, last)

\* explore: one page of the public blogs.
explore(d, page, per_page) ==
    paginate(OrderByDateDesc({b \in d.blogs : b.is_public}), page, per_page)

\* ---------------------------------------------------------------- the server
InitDb ==
    [blogs |-> {}, comments |-> {},
     followers |-> EmptyTable(Users \X Users),
     blog_likes |-> EmptyTable(Users \X BlogIds),
     comment_likes |-> EmptyTable(Users \X CommentIds)]

NoHistory == [r |-> Idle, d |-> InitDb, r0 |-> Idle, d0 |-> InitDb]

\* No page has been rendered.
NoFeed ==
    [op |-> "none", viewer |-> Anonymous, owner |-> 0, page |-> 0, per_page |-> 0,
     featured |-> <<>>, blogs |-> <<>>, d |-> InitDb]

\* The accounts are registered; nothing has been posted, followed or liked.
Init ==
    /\ db = InitDb
    /\ requests = EmptyBag
    /\ resp = Idle
    /\ started = 0
    /\ prev = NoHistory
    /\ feed = NoFeed

\* The server takes a new request while a worker is free.
Accepts ==
    /\ started < MaxReqs
    /\ BagCardinality(requests) < NumSlots

\* The requests in service at a statement of handler op.
InFlight(op) == {r \in BagToSet(requests) : r.op = op}

\* Request r has run one statement; an answered request leaves the server,
\* and resp keeps the response sent last.
Serve(r, res) ==
    /\ db' = res.d
    /\ IF res.r.pc = "done"
       THEN requests' = requests (-) SetToBag({r}) /\ resp' = res.r
       ELSE requests' = (requests (-) SetToBag({r})) (+) SetToBag({res.r}) /\ UNCHANGED resp
    /\ UNCHANGED <<prev, feed>>

StartToggleFollow ==
    /\ Accepts
    /\ \E u \in Users, id \in Users \cup {Anonymous} :
          LET r == Request("toggle_follow", u, id) IN Serve(r, toggle_follow(db, r, TRUE))
    /\ started' = started + 1

StepToggleFollow ==
    /\ \E r \in InFlight("toggle_follow"), sane \in BOOLEAN : Serve(r, toggle_follow(db, r, sane))
    /\ UNCHANGED started

StartToggleLikeBlog ==
    /\ Accepts
    /\ \E u \in Users, id \in BlogIds :
          LET r == Request("toggle_like_blog", u, id) IN Serve(r, toggle_like_blog(db, r, TRUE))
    /\ started' = started + 1

StepToggleLikeBlog ==
    /\ \E r \in InFlight("toggle_like_blog"), sane \in BOOLEAN :
          Serve(r, toggle_like_blog(db, r, sane))
    /\ UNCHANGED started

StartToggleLikeComment ==
    /\ Accepts
    /\ \E u \in Users, id \in CommentIds :
          LET r == Request("toggle_like_comment", u, id) IN
          Serve(r, toggle_like_comment(db, r, TRUE))
    /\ started' = started + 1

StepToggleLikeComment ==
    /\ \E r \in InFlight("toggle_like_comment"), sane \in BOOLEAN :
          Serve(r, toggle_like_comment(db, r, sane))
    /\ UNCHANGED started

CreateBlog ==
    /\ Accepts
    /\ Cardinality(db.blogs) < MaxBlogs
    /\ \E u \in Users, is_public \in BOOLEAN :
          LET r == Request("create_blog", u, 0) IN Serve(r, create_blog(db, r, is_public))
    /\ started' = started + 1

EditBlog ==
    /\ Accepts
    /\ \E u \in Users, id \in BlogIds, is_public \in BOOLEAN :
          LET r == Request("edit_blog", u, id) IN Serve(r, edit_blog(db, r, is_public))
    /\ started' = started + 1

AddComment ==
    /\ Accepts
    /\ Cardinality(db.comments) < MaxComments
    /\ \E u \in Users, id \in BlogIds :
          LET r == Request("add_comment", u, id) IN Serve(r, add_comment(db, r))
    /\ started' = started + 1

ViewBlog ==
    /\ Accepts
    /\ \E u \in Users \cup {Anonymous}, id \in BlogIds :
          LET r == Request("view_blog", u, id) IN Serve(r, view_blog(db, r))
    /\ started' = started + 1

Next ==
    \/ StartToggleFollow
    \/ StepToggleFollow
    \/ StartToggleLikeBlog
    \/ StepToggleLikeBlog
    \/ StartToggleLikeComment
    \/ StepToggleLikeComment
    \/ CreateBlog
    \/ EditBlog
    \/ AddComment
    \/ ViewBlog

Spec == Init /\ [][Next]_vars

\* ---------------------------------------------------------------- one request at a time
\* A toggle handler served from its first statement to its response with no
\* other request in between.
RECURSIVE Run(_, _, _)
Run(d, r, sane) ==
    IF r.pc = "done" THEN [d |-> d, r |-> r]
    ELSE LET res == CASE r.op = "toggle_follow" -> toggle_follow(d, r, sane)
                      [] r.op = "toggle_like_blog" -> toggle_like_blog(d, r, sane)
                      [] r.op = "toggle_like_comment" -> toggle_like_comment(d, r, sane)
                      [] OTHER -> [d |-> d, r |-> Respond(r, 500, "error")]
         IN Run(res.d, res.r, sane)

\* prev keeps the last two requests served (r0, then r) and the store each
\* of them started from (d0, d).
Alone(res) ==
    /\ started < MaxReqs
    /\ started' = started + 1
    /\ db' = res.d
    /\ prev' = [r |-> res.r, d |-> db, r0 |-> prev.r, d0 |-> prev.d]
    /\ UNCHANGED <<requests, resp, feed>>

SeqToggleFollow ==
    \E u \in Users, id \in Users \cup {Anonymous}, sane \in BOOLEAN :
        Alone(Run(db, Request("toggle_follow", u, id), sane))

SeqToggleLikeBlog ==
    \E u \in Users, id \in BlogIds, sane \in BOOLEAN :
        Alone(Run(db, Request("toggle_like_blog", u, id), sane))

SeqToggleLikeComment ==
    \E u \in Users, id \in CommentIds, sane \in BOOLEAN :
        Alone(Run(db, Request("toggle_like_comment", u, id), sane))

SeqCreateBlog ==
    /\ Cardinality(db.blogs) < MaxBlogs
    /\ \E u \in Users, is_public \in BOOLEAN :
          Alone(create_blog(db, Request("create_blog", u, 0), is_public))

SeqEditBlog ==
    \E u \in Users, id \in BlogIds, is_public \in BOOLEAN :
        Alone(edit_blog(db, Request("edit_blog", u, id), is_public))

SeqAddComment ==
    /\ Cardinality(db.comments) < MaxComments
    /\ \E u \in Users, id \in BlogIds :
          Alone(add_comment(db, Request("add_comment", u, id)))

SeqViewBlog ==
    \E u \in Users \cup {Anonymous}, id \in BlogIds :
        Alone(view_blog(db, Request("view_blog", u, id)))

SeqNext ==
    \/ SeqToggleFollow
    \/ SeqToggleLikeBlog
    \/ SeqToggleLikeComment
    \/ SeqCreateBlog
    \/ SeqEditBlog
    \/ SeqAddComment
    \/ SeqViewBlog

SeqSpec == Init /\ [][SeqNext]_vars

\* A request served from its first statement to its response, whatever
\* was served before: prev keeps the request and the store it started from.
\* The response is not a page.
Handled(res) ==
    /\ started < MaxHandled
    /\ started' = started + 1
    /\ db' = res.d
    /\ prev' = [NoHistory EXCEPT !.r = res.r, !.d = db]
    /\ feed' = NoFeed
    /\ UNCHANGED <<requests, resp>>

\* ---------------------------------------------------------------- the home page
\* The followers tables the toggle_follow endpoint can produce: at most one
\* row per pair and nobody follows themselves.
FollowGraphs ==
    {[k \in Users \X Users |-> IF k \in g THEN 1 ELSE 0] :
        g \in SUBSET {k \in Users \X Users : k[1] # k[2]}}

\* The blogs tables create_blog and edit_blog can produce with n rows: any
\* author and visibility, never featured, created one after the other.
WrittenBlogs(n) ==
    {{[id |-> i, user_id |-> author[i], is_public |-> is_public[i],
       is_featured |-> FALSE, date_created |-> i] : i \in 1..n} :
        author \in [1..n -> Users], is_public \in [1..n -> BOOLEAN]}

\* Blogs have been written and users follow each other; the home page has
\* not been requested yet.
HomeInit ==
    /\ \E n \in 0..MaxHomeBlogs : \E blogs \in WrittenBlogs(n) : \E followers \in FollowGraphs :
          db = [InitDb EXCEPT !.blogs = blogs, !.followers = followers]
    /\ requests = EmptyBag
    /\ resp = Idle
    /\ started = 0
    /\ prev = NoHistory
    /\ feed = NoFeed

\* GET / by viewer, logged in or not.
Index ==
    /\ \E viewer \in Users \cup {Anonymous} :
          LET page == index(db, viewer) IN
          feed' = [NoFeed EXCEPT !.op = "index", !.viewer = viewer, !.featured = page.featured,
                                 !.blogs = page.recent, !.d = db]
    /\ UNCHANGED <<db, requests, resp, started, prev>>

HomeNext == Index

HomeSpec == HomeInit /\ [][HomeNext]_vars

\* ---------------------------------------------------------------- browsing
\* The blogs tables with n rows: is_featured is a column no route assigns,
\* it is set in the database, on public and on private blogs alike.
StoredBlogs(n) ==
    {{[id |-> i, user_id |-> author[i], is_public |-> is_public[i],
       is_featured |-> is_featured[i], date_created |-> i] : i \in 1..n} :
        author \in [1..n -> Users], is_public \in [1..n -> BOOLEAN],
        is_featured \in [1..n -> BOOLEAN]}

FeedInit ==
    /\ \E n \in 0..MaxListed : \E blogs \in StoredBlogs(n) : \E followers \in FollowGraphs :
          db = [InitDb EXCEPT !.blogs = blogs, !.followers = followers]
    /\ requests = EmptyBag
    /\ resp = Idle
    /\ started = 0
    /\ prev = NoHistory
    /\ feed = NoFeed

\* GET /profile/<username> of an existing user.
Profile ==
    /\ \E viewer \in Users \cup {Anonymous}, user \in Users :
          feed' = [NoFeed EXCEPT !.op = "profile", !.viewer = viewer, !.owner = user,
                                 !.blogs = profile(db, viewer, user), !.d = db]
    /\ UNCHANGED <<db, requests, resp, started, prev>>

\* GET /explore?page=n under a configured page size.
Explore ==
    /\ \E page \in 0..MaxPage, per_page \in 1..MaxPerPage :
          feed' = [NoFeed EXCEPT !.op = "explore", !.page = page, !.per_page = per_page,
                                 !.blogs = explore(db, page, per_page), !.d = db]
    /\ UNCHANGED <<db, requests, resp, started, prev>>

\* POST /edit_blog/<id> between two pages; its response is a redirect, so
\* no page is on display afterwards.
EditListed ==
    \E u \in Users, id \in 1..MaxListed, is_public \in BOOLEAN :
        Handled(edit_blog(db, Request("edit_blog", u, id), is_public))

FeedNext ==
    \/ Index
    \/ Profile
    \/ Explore
    \/ EditListed

FeedSpec == FeedInit /\ [][FeedNext]_vars

\* ---------------------------------------------------------------- deleting
\* The comments tables with m rows on the blogs with ids in blog_ids.
WrittenComments(m, blog_ids) ==
    {{[id |-> i, user_id |-> author[i], blog_id |-> blog[i]] : i \in 1..m} :
        author \in [1..m -> Users], blog \in [1..m -> blog_ids]}

\* The like tables the toggle endpoints can produce on the rows with ids in
\* ids: at most one row per user and id.
LikeTables(ids) ==
    {[k \in Users \X (1..MaxStored) |-> IF k \in g THEN 1 ELSE 0] : g \in SUBSET (Users \X ids)}

\* Blogs have been written, commented and liked; every comment and every
\* like refers to a row that exists.
DeleteInit ==
    /\ \E n \in 0..MaxStored : \E blogs \in WrittenBlogs(n) :
       \E m \in 0..(IF n = 0 THEN 0 ELSE MaxStored) : \E comments \in WrittenComments(m, 1..n) :
       \E blog_likes \in LikeTables(1..n), comment_likes \in LikeTables(1..m) :
          db = [InitDb EXCEPT !.blogs = blogs, !.comments = comments,
                              !.blog_likes = blog_likes, !.comment_likes = comment_likes]
    /\ requests = EmptyBag
    /\ resp = Idle
    /\ started = 0
    /\ prev = NoHistory
    /\ feed = NoFeed

\* POST /delete_blog/<id>
DeleteBlog ==
    \E u \in Users, id \in 1..MaxStored :
        Handled(delete_blog(db, Request("delete_blog", u, id)))

\* POST /delete_comment/<id>
DeleteComment ==
    \E u \in Users, id \in 1..MaxStored :
        Handled(delete_comment(db, Request("delete_comment", u, id)))

\* POST /edit_blog/<id>
EditStored ==
    \E u \in Users, id \in 1..MaxStored, is_public \in BOOLEAN :
        Handled(edit_blog(db, Request("edit_blog", u, id), is_public))

DeleteNext ==
    \/ DeleteBlog
    \/ DeleteComment
    \/ EditStored

DeleteSpec == DeleteInit /\ [][DeleteNext]_vars

\* ---------------------------------------------------------------- deleting next to liking
\* The like tables over keys K with rows on the ids in ids only, at most
\* one row per key.
LikeRows(K, ids) ==
    {[k \in K |-> IF k \in g THEN 1 ELSE 0] : g \in SUBSET {k \in K : k[2] \in ids}}

\* Blogs have been written, commented and liked; every comment and every
\* like refers to a row that exists; no request is in service.
RaceInit ==
    /\ \E n \in 0..MaxBlogs : \E blogs \in WrittenBlogs(n) :
       \E m \in 0..(IF n = 0 THEN 0 ELSE MaxComments) : \E comments \in WrittenComments(m, 1..n) :
       \E blog_likes \in LikeRows(Users \X BlogIds, 1..n) :
       \E comment_likes \in LikeRows(Users \X CommentIds, 1..m) :
          db = [InitDb EXCEPT !.blogs = blogs, !.comments = comments,
                              !.blog_likes = blog_likes, !.comment_likes = comment_likes]
    /\ requests = EmptyBag
    /\ resp = Idle
    /\ started = 0
    /\ prev = NoHistory
    /\ feed = NoFeed

RaceStartLikeBlog ==
    /\ Accepts
    /\ \E u \in Users, id \in BlogIds :
          LET r == Request("toggle_like_blog", u, id) IN
          Serve(r, toggle_like_blog_step(db, r, TRUE, TRUE))
    /\ started' = started + 1

RaceStepLikeBlog ==
    /\ \E r \in InFlight("toggle_like_blog"), sane \in BOOLEAN, fk \in BOOLEAN :
          Serve(r, toggle_like_blog_step(db, r, sane, fk))
    /\ UNCHANGED started

RaceStartLikeComment ==
    /\ Accepts
    /\ \E u \in Users, id \in CommentIds :
          LET r == Request("toggle_like_comment", u, id) IN
          Serve(r, toggle_like_comment_step(db, r, TRUE, TRUE))
    /\ started' = started + 1

RaceStepLikeComment ==
    /\ \E r \in InFlight("toggle_like_comment"), sane \in BOOLEAN, fk \in BOOLEAN :
          Serve(r, toggle_like_comment_step(db, r, sane, fk))
    /\ UNCHANGED started

\* The comments table holds at most MaxComments rows once every add_comment
\* in service has committed.
RaceStartAddComment ==
    /\ Accepts
    /\ Cardinality(db.comments) + Cardinality(InFlight("add_comment")) < MaxComments
    /\ \E u \in Users, id \in BlogIds :
          LET r == Request("add_comment", u, id) IN Serve(r, add_comment_step(db, r, TRUE))
    /\ started' = started + 1

RaceStepAddComment ==
    /\ \E r \in InFlight("add_comment"), fk \in BOOLEAN : Serve(r, add_comment_step(db, r, fk))
    /\ UNCHANGED started

RaceStartDeleteBlog ==
    /\ Accepts
    /\ \E u \in Users, id \in BlogIds :
          LET r == Request("delete_blog", u, id) IN Serve(r, delete_blog_step(db, r))
    /\ started' = started + 1

RaceStepDeleteBlog ==
    /\ \E r \in InFlight("delete_blog") : Serve(r, delete_blog_step(db, r))
    /\ UNCHANGED started

RaceStartDeleteComment ==
    /\ Accepts
    /\ \E u \in Users, id \in CommentIds :
          LET r == Request("delete_comment", u, id) IN Serve(r, delete_comment_step(db, r))
    /\ started' = started + 1

RaceStepDeleteComment ==
    /\ \E r \in InFlight("delete_comment") : Serve(r, delete_comment_step(db, r))
    /\ UNCHANGED started

RaceNext ==
    \/ RaceStartLikeBlog
    \/ RaceStepLikeBlog
    \/ RaceStartLikeComment
    \/ RaceStepLikeComment
    \/ RaceStartAddComment
    \/ RaceStepAddComment
    \/ RaceStartDeleteBlog
    \/ RaceStepDeleteBlog
    \/ RaceStartDeleteComment
    \/ RaceStepDeleteComment

RaceSpec == RaceInit /\ [][RaceNext]_vars

\* ---------------------------------------------------------------- properties
\* A follow edge (a, b) is stored.
FollowEdge(d, a, b) == d.followers[<<a, b>>] >= 1

\* The visibility the specification grants a logged-in viewer.
MayView(d, blog, user) ==
    blog.is_public \/ user = blog.user_id \/ FollowEdge(d, user, blog.user_id)

\* This step sends the response of a request of handler op: a request
\* answered by its first statement, or a worker finishing one.
Answers(op) ==
    /\ resp'.op = op
    /\ \/ started' = started + 1 /\ requests' = requests
       \/ started' = started /\ BagCardinality(requests') < BagCardinality(requests)

\* This step is request r, at statement pc of handler op, running it.
Runs(r, op, pc) ==
    /\ r.op = op
    /\ r.pc = pc
    /\ CopiesIn(r, requests') < CopiesIn(r, requests)

\* This step leaves a request in service as r2.
Becomes(r2) == CopiesIn(r2, requests') > CopiesIn(r2, requests)

\* Request r commits, with success, the pending change of a handler op.
Commits(r, op, pending) ==
    /\ Runs(r, op, "commit")
    /\ r.pending = pending
    /\ Becomes([r EXCEPT !.pc = "count"])

\* Request r is answered 500 by this step.
Fails(r) ==
    /\ BagCardinality(requests') < BagCardinality(requests)
    /\ resp' = [r EXCEPT !.pc = "done", !.code = 500, !.status = "error"]

PrivateBlogsOf(d, author) == {blog \in d.blogs : blog.user_id = author /\ ~blog.is_public}

\* C1 - For every logged-in viewer U and post P, in every reachable state,
\* can_view(U, P) holds exactly when P is public, U is P's author or the
\* follow edge (U, P.author) exists; the author always sees the own post, a
\* stranger never sees a private one.
C1_State ==
    \A blog \in db.blogs :
        /\ \A u \in Users : can_view(db, blog, u) <=> MayView(db, blog, u)
        /\ can_view(db, blog, blog.user_id)
        /\ \A u \in Users :
              (~blog.is_public /\ u # blog.user_id /\ ~FollowEdge(db, u, blog.user_id))
                  => ~can_view(db, blog, u)

\* C1 (view_blog) - a logged-in viewer's GET /blog/id shows the page exactly
\* when that visibility holds, and redirects otherwise.
C1_View ==
    (Answers("view_blog") /\ resp'.user \in Users /\ resp'.code # 404)
        => LET blog == GetRow(db.blogs, resp'.id) IN
           /\ resp'.status = "shown" <=> MayView(db, blog, resp'.user)
           /\ resp'.status = "denied" <=> ~MayView(db, blog, resp'.user)

C1_CanView == []C1_State /\ [][C1_View]_vars

\* C1 witness: a follower has been shown a private post of somebody else.
C1_Witness ==
    \E blog \in db.blogs :
        /\ resp.op = "view_blog" /\ resp.status = "shown"
        /\ resp.id = blog.id /\ resp.user \in Users
        /\ ~blog.is_public /\ resp.user # blog.user_id
        /\ FollowEdge(db, resp.user, blog.user_id)

\* C2 - For every post P, can_view with no logged-in viewer holds exactly when
\* P is public, whoever wrote P and whatever the follow graph holds.
C2_AnonymousView ==
    \A blog \in db.blogs : can_view(db, blog, Anonymous) <=> blog.is_public

\* C2 witness: an anonymous visitor was refused a private post whose author
\* has a follower.
C2_Witness ==
    \E blog \in db.blogs :
        /\ resp.op = "view_blog" /\ resp.status = "denied"
        /\ resp.id = blog.id /\ resp.user = Anonymous
        /\ ~blog.is_public
        /\ \E u \in Users : FollowEdge(db, u, blog.user_id)

\* C3 - For a private post P of A and a user B # A, can_view(B, P) follows the
\* follow edge: it holds right after B's follow of A commits and fails right
\* after B's unfollow of A commits, whatever follows came before.
C3_Step ==
    \A r \in BagToSet(requests) :
        /\ Commits(r, "toggle_follow", "insert")
              => \A blog \in PrivateBlogsOf(db', r.id) :
                     can_view(db', blog, r.user)
        /\ Commits(r, "toggle_follow", "delete")
              => \A blog \in PrivateBlogsOf(db', r.id) :
                     ~can_view(db', blog, r.user)

C3_ViewTracksFollow == [][C3_Step]_vars

\* C3 witness: an unfollow (of an edge an earlier follow created) has just
\* committed and the private post of the unfollowed author is hidden again.
C3_Witness ==
    \E r \in BagToSet(requests) :
        /\ r.op = "toggle_follow" /\ r.pc = "count"
        /\ r.pending = "delete"
        /\ \E blog \in PrivateBlogsOf(db, r.id) : ~can_view(db, blog, r.user)

\* C4 - After follow(A, B), is_following(A, B) holds; follow(A, B) on an
\* existing edge changes nothing; so no ordered pair is stored twice, also
\* after concurrent follow requests.
C4_State == \A a \in Users, b \in Users : db.followers[<<a, b>>] <= 1

C4_Step ==
    \A r \in BagToSet(requests) :
        /\ Commits(r, "toggle_follow", "insert")
              => is_following(db', r.user, r.id)
        /\ (/\ Runs(r, "toggle_follow", "mutate") /\ ~r.was
            /\ FollowEdge(db, r.user, r.id))
              => Becomes([r EXCEPT !.pc = "commit", !.pending = "none"]) /\ db' = db
        /\ (/\ Runs(r, "toggle_follow", "commit") /\ ~r.was
            /\ r.pending = "none")
              => Becomes([r EXCEPT !.pc = "count"]) /\ db' = db

C4_FollowOnce == []C4_State /\ [][C4_Step]_vars

\* C4 witness: follow was called on an edge a concurrent request had already
\* committed, and the pair is stored once.
C4_Witness ==
    /\ resp.op = "toggle_follow" /\ resp.code = 200
    /\ ~resp.was /\ resp.pending = "none"
    /\ db.followers[<<resp.user, resp.id>>] = 1

\* C5 - A follow of oneself is refused with 400 at toggle_follow and stores
\* nothing: no reachable state holds an edge from a user to the same user.
C5_State == \A a \in Users : db.followers[<<a, a>>] = 0

C5_Step ==
    (Answers("toggle_follow") /\ resp'.user = resp'.id) => resp'.code = 400 /\ db' = db

C5_NoSelfFollow == []C5_State /\ [][C5_Step]_vars

\* C5 witness: a self-follow was refused.
C5_Witness == resp.op = "toggle_follow" /\ resp.user = resp.id /\ resp.code = 400

\* C6 - unfollow(A, B) with no edge (A, B) succeeds as a no-op: nothing is
\* made pending, the commit raises nothing and the store stays as it is.
C6_Step ==
    \A r \in BagToSet(requests) :
        /\ (/\ Runs(r, "toggle_follow", "mutate") /\ r.was
            /\ ~FollowEdge(db, r.user, r.id))
              => Becomes([r EXCEPT !.pc = "commit", !.pending = "none"]) /\ db' = db
        /\ (/\ Runs(r, "toggle_follow", "commit") /\ r.was
            /\ r.pending = "none")
              => Becomes([r EXCEPT !.pc = "count"]) /\ db' = db

C6_UnfollowNoEdge == [][C6_Step]_vars

\* C6 witness: an unfollow that found no edge was answered with success.
C6_Witness ==
    /\ resp.op = "toggle_follow" /\ resp.code = 200
    /\ resp.was /\ resp.pending = "none"

\* The users holding a like edge to a post / a comment.
BlogLikers(d, id) == {u \in Users : d.blog_likes[<<u, id>>] >= 1}
CommentLikers(d, id) == {u \in Users : d.comment_likes[<<u, id>>] >= 1}

\* C7 - In every reachable state likes_count of a post or comment is the
\* number of distinct users holding a like edge to it.
C7_CountIsLikers ==
    /\ \A id \in BlogIds : blog_likes_count(db, id) = Cardinality(BlogLikers(db, id))
    /\ \A id \in CommentIds : comment_likes_count(db, id) = Cardinality(CommentLikers(db, id))

\* C7 witness: two like requests for one post raced, one of them failed, and
\* the post counts one like.
C7_Witness ==
    /\ resp.op = "toggle_like_blog" /\ resp.code = 500
    /\ blog_likes_count(db, resp.id) = 1

LikeOps == {"toggle_like_blog", "toggle_like_comment"}

LikeTable(d, op) == IF op = "toggle_like_blog" THEN d.blog_likes ELSE d.comment_likes

\* C8 - Two concurrent like requests of one user for one target never both
\* insert: a (user, target) pair is stored at most once, and the insert that
\* meets the committed row of the other fails and changes nothing.
C8_State ==
    /\ \A u \in Users, id \in BlogIds : db.blog_likes[<<u, id>>] <= 1
    /\ \A u \in Users, id \in CommentIds : db.comment_likes[<<u, id>>] <= 1

C8_Step ==
    \A r \in BagToSet(requests), op \in LikeOps :
        (/\ Runs(r, op, "commit") /\ r.pending = "insert"
         /\ LikeTable(db, op)[<<r.user, r.id>>] >= 1)
            => Fails(r) /\ db' = db

C8_NoDuplicateLike == []C8_State /\ [][C8_Step]_vars

\* C8 witness: of two requests of one user that both went for the insert,
\* one stored the row and the other was refused.
C8_Witness ==
    /\ resp.op \in LikeOps /\ resp.code = 500 /\ resp.pending = "insert"
    /\ LikeTable(db, resp.op)[<<resp.user, resp.id>>] = 1

\* C9 - The status and the count of one toggle-like response describe one
\* state: "liked" comes with a count that includes the caller's edge,
\* "unliked" with a count that does not.
C9_ResponseConsistent ==
    (resp.op \in LikeOps /\ resp.code = 200)
        => /\ resp.status = "liked" => resp.rows[resp.user] >= 1
           /\ resp.status = "unliked" => resp.rows[resp.user] = 0

HasLiked(d, op, u, id) ==
    IF op = "toggle_like_blog" THEN has_liked_blog(d, u, id) ELSE has_liked_comment(d, u, id)

LikesCount(d, op, id) ==
    IF op = "toggle_like_blog" THEN blog_likes_count(d, id) ELSE comment_likes_count(d, id)

\* Two toggle-like requests of one user for one target were served one right
\* after the other.
ToggledTwice ==
    /\ prev.r0.op \in LikeOps /\ prev.r0.code = 200
    /\ prev.r.op = prev.r0.op /\ prev.r.code = 200
    /\ prev.r.user = prev.r0.user /\ prev.r.id = prev.r0.id

\* C10 - Two consecutive toggle-like requests of U on T, nothing in between,
\* leave has_liked(U, T) and likes_count(T) as they were before the first.
C10_ToggleTwice ==
    ToggledTwice
        => /\ HasLiked(db, prev.r.op, prev.r.user, prev.r.id)
                = HasLiked(prev.d0, prev.r.op, prev.r.user, prev.r.id)
           /\ LikesCount(db, prev.r.op, prev.r.id) = LikesCount(prev.d0, prev.r.op, prev.r.id)

\* C10 witness: a post was liked and then unliked by the same user.
C10_Witness ==
    /\ ToggledTwice
    /\ prev.r0.op = "toggle_like_blog"
    /\ prev.r0.status = "liked" /\ prev.r.status = "unliked"

ToggleOps == {"toggle_follow"} \cup LikeOps

\* The association table a toggle handler works on.
ToggleTable(d, op) ==
    CASE op = "toggle_follow" -> d.followers
      [] op = "toggle_like_blog" -> d.blog_likes
      [] OTHER -> d.comment_likes

\* The users holding an edge to target id in the table of op.
EdgesTo(d, op, id) == {u \in Users : ToggleTable(d, op)[<<u, id>>] >= 1}

\* C11 - One toggle served without interference flips exactly the edge
\* (actor, target): an existing edge is removed and the status is
\* unfollowed/unliked, a missing one is created and the status is
\* followed/liked; the count returned is the live number of edges to the
\* target after the flip, and nothing else in the store changes.
C11_ToggleFlipsOneEdge ==
    LET r == prev.r
        key == <<r.user, r.id>>
        before == ToggleTable(prev.d, r.op)
        after == ToggleTable(db, r.op)
    IN  /\ r.op \in ToggleOps => r.code \in {200, 400, 404}
        /\ (r.op \in ToggleOps /\ r.code = 200) =>
              /\ before[key] >= 1 =>
                    /\ after[key] = 0
                    /\ r.status = IF r.op = "toggle_follow" THEN "unfollowed" ELSE "unliked"
              /\ before[key] = 0 =>
                    /\ after[key] = 1
                    /\ r.status = IF r.op = "toggle_follow" THEN "followed" ELSE "liked"
              /\ \A k \in DOMAIN before : k # key => after[k] = before[k]
              /\ r.op # "toggle_follow" => db.followers = prev.d.followers
              /\ r.op # "toggle_like_blog" => db.blog_likes = prev.d.blog_likes
              /\ r.op # "toggle_like_comment" => db.comment_likes = prev.d.comment_likes
              /\ db.blogs = prev.d.blogs /\ db.comments = prev.d.comments
              /\ r.count = Cardinality(EdgesTo(db, r.op, r.id))

\* C11 witness: a user liked a post and toggled again; the answer is unliked
\* with count 0.
C11_Witness ==
    /\ prev.r0.op = "toggle_like_blog" /\ prev.r0.code = 200 /\ prev.r0.status = "liked"
    /\ prev.r.op = "toggle_like_blog" /\ prev.r.code = 200 /\ prev.r.status = "unliked"
    /\ prev.r.user = prev.r0.user /\ prev.r.id = prev.r0.id
    /\ prev.r.count = 0 /\ prev.r0.count = 1

\* The blogs of d that viewer is entitled to see in a feed: the public ones
\* and the private ones of the viewer and of the users the viewer follows.
VisibleBlogs(d, viewer) ==
    {b \in d.blogs : b.is_public \/ (viewer # Anonymous /\ (b.user_id = viewer \/ FollowEdge(d, viewer, b.user_id)))}

\* seq lists each of its rows once, newest first.
NewestFirst(seq) ==
    \A i, j \in 1..Len(seq) : i < j => seq[i].date_created > seq[j].date_created

\* seq is the n newest rows of S (all of S when S has fewer), newest first.
IsNewest(seq, S, n) ==
    /\ Len(seq) = (IF Cardinality(S) < n THEN Cardinality(S) ELSE n)
    /\ Range(seq) \subseteq S
    /\ NewestFirst(seq)
    /\ \A b \in S \ Range(seq) : \A c \in Range(seq) : b.date_created < c.date_created

\* C12 - The recent list of a logged-in viewer is the 6 newest of the public
\* blogs together with the private blogs of the viewer and of the followed
\* users, newest first; private blogs among those 6 all appear, however many.
C12_RecentOfMember ==
    (feed.op = "index" /\ feed.viewer # Anonymous)
        => IsNewest(feed.blogs, VisibleBlogs(feed.d, feed.viewer), 6)

\* C13 - The recent list of an anonymous viewer is the min(6, #public) newest
\* public blogs, newest first: no private blog, and no listed blog is older
\* than a public blog left out.
C13_RecentOfAnonymous ==
    (feed.op = "index" /\ feed.viewer = Anonymous)
        => IsNewest(feed.blogs, {b \in feed.d.blogs : b.is_public}, 6)

\* C13 witness: an anonymous home page with 6 blogs, while the store holds a
\* seventh public blog.
C13_Witness ==
    /\ feed.op = "index" /\ feed.viewer = Anonymous /\ feed.d = db
    /\ Len(feed.blogs) = 6
    /\ \E b \in db.blogs : b.is_public /\ b \notin Range(feed.blogs)

\* C14 - For every viewer the featured list of the home page holds exactly
\* the blogs that are featured and public, all of them, newest first; a
\* featured blog that is private, or was made private by an edit, is absent.
C14_FeaturedArePublic ==
    feed.op = "index" =>
        LET S == {b \in feed.d.blogs : b.is_featured /\ b.is_public} IN
        /\ IsNewest(feed.featured, S, Cardinality(S))
        /\ Range(feed.featured) = S

\* C14 witness: the author made a featured blog private; the home page
\* rendered next lists another featured blog and not that one.
C14_Witness ==
    /\ feed.op = "index" /\ feed.d = db /\ feed.featured # <<>>
    /\ prev.r.op = "edit_blog" /\ prev.r.status = "updated"
    /\ \E b \in db.blogs :
          /\ b.id = prev.r.id /\ b.is_featured /\ ~b.is_public
          /\ GetRow(prev.d.blogs, b.id).is_public
          /\ b \notin Range(feed.featured)

\* C15 - The profile page of an owner lists, newest first, all blogs of the
\* owner when the viewer is logged in and is the owner or follows the owner,
\* and exactly the public ones otherwise: in both cases the blogs of the
\* owner that the viewer may view.
C15_ProfileFeed ==
    feed.op = "profile" =>
        LET owned == {b \in feed.d.blogs : b.user_id = feed.owner}
            entitled == /\ feed.viewer # Anonymous
                        /\ (feed.viewer = feed.owner \/ FollowEdge(feed.d, feed.viewer, feed.owner))
        IN  /\ NewestFirst(feed.blogs)
            /\ Range(feed.blogs) = (IF entitled THEN owned ELSE {b \in owned : b.is_public})
            /\ Range(feed.blogs) = {b \in owned : can_view(feed.d, b, feed.viewer)}

\* C15 witness: a follower opens the profile of an owner with a private and
\* a public blog and is shown both.
C15_Witness ==
    /\ feed.op = "profile" /\ feed.d = db
    /\ feed.viewer # Anonymous /\ feed.viewer # feed.owner
    /\ FollowEdge(db, feed.viewer, feed.owner)
    /\ Len(feed.blogs) = 2
    /\ \E b \in Range(feed.blogs) : ~b.is_public
    /\ \E b \in Range(feed.blogs) : b.is_public

\* The place of blog b among the rows of S, newest first, counted from 1.
Position(S, b) == 1 + Cardinality({c \in S : c.date_created > b.date_created})

\* C19 - Page k >= 1 of explore holds the public blogs at places
\* (k-1)*pageSize+1 .. k*pageSize of all public blogs newest first, in that
\* order; a page beyond the last one is empty, not an error; no private
\* blog is on any page.
C19_ExplorePage ==
    (feed.op = "explore" /\ feed.page >= 1) =>
        LET public == {b \in feed.d.blogs : b.is_public}
            places == ((feed.page - 1) * feed.per_page + 1)..(feed.page * feed.per_page)
        IN  /\ NewestFirst(feed.blogs)
            /\ Range(feed.blogs) = {b \in public : Position(public, b) \in places}
            /\ (feed.page - 1) * feed.per_page >= Cardinality(public) => feed.blogs = <<>>

\* C19 witness: with two public blogs and one blog per page, page 2 shows
\* the older one.
C19_Witness ==
    /\ feed.op = "explore" /\ feed.d = db
    /\ feed.page = 2 /\ feed.per_page = 1
    /\ Cardinality({b \in db.blogs : b.is_public}) = 2
    /\ Len(feed.blogs) = 1
    /\ \E b \in db.blogs : b.is_public /\ b.date_created > feed.blogs[1].date_created

\* C20 - Every blog in the featured or the recent list of the home page of a
\* viewer is a blog that viewer may view in the state the page was built from.
C20_HomeFeedVisible ==
    feed.op = "index" =>
        \A b \in Range(feed.featured) \cup Range(feed.blogs) : can_view(feed.d, b, feed.viewer)

\* C20 witness: the home page of a follower lists a private blog of the
\* followed user next to a featured blog.
C20_Witness ==
    /\ feed.op = "index" /\ feed.d = db /\ feed.viewer # Anonymous
    /\ feed.featured # <<>>
    /\ \E b \in Range(feed.blogs) :
          ~b.is_public /\ b.user_id # feed.viewer /\ FollowEdge(db, feed.viewer, b.user_id)

\* C16 - Once the author has deleted blog P, the store holds no comment of
\* P, no blog like on P and no comment like on a comment of P; every other
\* blog, comment and like is as it was.
C16_DeleteBlogCascades ==
    (prev.r.op = "delete_blog" /\ prev.r.status = "deleted") =>
        LET P == prev.r.id
            gone == {c.id : c \in {x \in prev.d.comments : x.blog_id = P}}
        IN  /\ ~HasRow(db.blogs, P)
            /\ \A c \in db.comments : c.blog_id # P
            /\ \A k \in DOMAIN db.blog_likes : k[2] = P => db.blog_likes[k] = 0
            /\ \A k \in DOMAIN db.comment_likes : k[2] \in gone => db.comment_likes[k] = 0
            /\ db.blogs = {b \in prev.d.blogs : b.id # P}
            /\ db.comments = {c \in prev.d.comments : c.blog_id # P}
            /\ \A k \in DOMAIN db.blog_likes : k[2] # P => db.blog_likes[k] = prev.d.blog_likes[k]
            /\ \A k \in DOMAIN db.comment_likes :
                  k[2] \notin gone => db.comment_likes[k] = prev.d.comment_likes[k]
            /\ db.followers = prev.d.followers

\* C16 witness: the deleted blog had a liked comment and a like of its own,
\* and another blog with a liked comment and a like is still stored.
C16_Witness ==
    /\ prev.r.op = "delete_blog" /\ prev.r.status = "deleted"
    /\ \E k \in DOMAIN prev.d.blog_likes : k[2] = prev.r.id /\ prev.d.blog_likes[k] = 1
    /\ \E c \in prev.d.comments :
          /\ c.blog_id = prev.r.id
          /\ \E u \in Users : prev.d.comment_likes[<<u, c.id>>] = 1
    /\ \E b \in db.blogs : \E u \in Users : db.blog_likes[<<u, b.id>>] = 1
    /\ \E c \in db.comments : \E u \in Users : db.comment_likes[<<u, c.id>>] = 1

\* C17 - delete_comment succeeds only for the author of the comment or the
\* author of the blog it belongs to; any other logged-in user is answered
\* 403 and the comment and its likes stay in the store unchanged.
C17_DeleteCommentAuthorized ==
    (prev.r.op = "delete_comment" /\ HasRow(prev.d.comments, prev.r.id)) =>
        LET comment == GetRow(prev.d.comments, prev.r.id)
            blog == GetRow(prev.d.blogs, comment.blog_id)
            allowed == prev.r.user = comment.user_id \/ prev.r.user = blog.user_id
        IN  /\ prev.r.code = 200 => allowed
            /\ comment \notin db.comments => allowed
            /\ allowed => prev.r.code = 200 /\ comment \notin db.comments
            /\ ~allowed =>
                  /\ prev.r.code = 403
                  /\ comment \in db.comments
                  /\ \A u \in Users :
                        db.comment_likes[<<u, comment.id>>] = prev.d.comment_likes[<<u, comment.id>>]
                  /\ db = prev.d

\* C17 witness: a user who wrote neither the comment nor its blog asked to
\* delete a liked comment and was answered 403.
C17_Witness ==
    /\ prev.r.op = "delete_comment" /\ prev.r.code = 403
    /\ \E c \in db.comments :
          /\ c.id = prev.r.id /\ c.user_id # prev.r.user
          /\ \E u \in Users : db.comment_likes[<<u, c.id>>] = 1

\* C18 - An edit or a deletion of a blog asked by a logged-in user who is
\* not its author is refused and leaves the blog, its is_public flag, its
\* comments and its likes unchanged; a blog changes its is_public flag or
\* leaves the store only in a request of its author.
C18_OnlyAuthorWrites ==
    /\ (prev.r.op \in {"edit_blog", "delete_blog"} /\ HasRow(prev.d.blogs, prev.r.id)) =>
          (prev.r.user # GetRow(prev.d.blogs, prev.r.id).user_id =>
              /\ prev.r.status = "denied"
              /\ GetRow(prev.d.blogs, prev.r.id) \in db.blogs
              /\ db = prev.d)
    /\ \A b \in prev.d.blogs :
          b \notin db.blogs =>
              /\ prev.r.op \in {"edit_blog", "delete_blog"}
              /\ prev.r.id = b.id
              /\ prev.r.user = b.user_id

\* C18 witness: a user asked to delete a blog of another user that has a
\* comment and a like, and was refused.
C18_Witness ==
    /\ prev.r.op = "delete_blog" /\ prev.r.status = "denied"
    /\ \E b \in db.blogs :
          /\ b.id = prev.r.id /\ b.user_id # prev.r.user
          /\ \E c \in db.comments : c.blog_id = b.id
          /\ \E u \in Users : db.blog_likes[<<u, b.id>>] = 1

\* The blog a like or comment request is about, in store d: the blog liked
\* or commented, or the blog of the comment liked.
BlogConcerned(d, r) ==
    IF r.op = "toggle_like_comment"
    THEN GetRow(d.blogs, GetRow(d.comments, r.id).blog_id)
    ELSE GetRow(d.blogs, r.id)

\* C21 - toggle_like_blog, toggle_like_comment and add_comment change the
\* store only for a user who may view the blog concerned: a user who is
\* neither the author nor a follower of the author of a private blog never
\* creates a like on it, a like on one of its comments, or a comment on it.
C21_WritesNeedView ==
    (/\ prev.r.op \in {"toggle_like_blog", "toggle_like_comment", "add_comment"}
     /\ db # prev.d)
        => MayView(prev.d, BlogConcerned(prev.d, prev.r), prev.r.user)

\* C22 - However toggle_like_blog, toggle_like_comment and add_comment
\* interleave with a delete_blog or delete_comment of the same target, no
\* state holds a comment of a blog that no longer exists, nor a like on a
\* blog or on a comment that no longer exists.
C22_NoOrphans ==
    /\ \A c \in db.comments : HasRow(db.blogs, c.blog_id)
    /\ \A k \in DOMAIN db.blog_likes : db.blog_likes[k] >= 1 => HasRow(db.blogs, k[2])
    /\ \A k \in DOMAIN db.comment_likes : db.comment_likes[k] >= 1 => HasRow(db.comments, k[2])

====
